---- MODULE Spec2Model ----
(***************************************************************************)
(* Model of gabor_streamlit.py: a Streamlit script that shows a Gabor      *)
(* patch, asks for its orientation and lowers the contrast with the score. *)
(*                                                                         *)
(* The script is re-executed from its first line on every user event and   *)
(* after every st.rerun(); st.session_state survives between executions.   *)
(* One action of Spec is one execution of the script along one of its      *)
(* paths.  SpecContrast and SpecGabor call calculate_contrast and          *)
(* generate_gabor directly, over a range of arguments.                     *)
(*                                                                         *)
(* Python floats are IEEE-754 binary64.  TLC has 32-bit integers, so the   *)
(* model evaluates the same arithmetic (round to nearest, ties to even,    *)
(* gradual underflow) in a binary floating-point format with the exponent  *)
(* range of binary64 and a significand of MantissaBits bits.               *)
(***************************************************************************)
EXTENDS Integers, Sequences, FiniteSets, TLC

VARIABLES
    session_state,     \* st.session_state: score, current_orientation, ...
    current_contrast,  \* the script's current_contrast (line 119), as last computed
    gabor,             \* the arguments of the last generate_gabor call (the patch on screen)
    difficulty,        \* the sidebar's difficulty label, as last written
    rerun,             \* st.rerun() was called: the script runs again by itself
    event,             \* what the last execution of the script did
    scored,            \* how often the score rose since the last generate_new_patch
    call               \* a direct call of a pure function and its result

vars == <<session_state, current_contrast, gabor, difficulty, rerun, event, scored, call>>

-----------------------------------------------------------------------------
(* Bounds of the model *)

\* significand width of the modelled float format (binary64 has 53)
MantissaBits == 10
\* the game is explored up to this score
MaxScore == 5
\* calculate_contrast is called directly for every score up to this one
MaxContrastScore == 4700
\* generate_gabor is called directly with the contrasts k/ContrastSteps
ContrastSteps == 4
\* and its samples are looked at in every PixelStride-th row and column
PixelStride == 32

-----------------------------------------------------------------------------
(* Floating point: a float is [m, e] and stands for m * 2^e *)

\* binary64: smallest normal exponent -1022, 52 fraction bits
MinExponent == 0 - (1022 + 52)

Abs(n) == IF n < 0 THEN 0 - n ELSE n

Max(a, b) == IF a < b THEN b ELSE a

Min(a, b) == IF a < b THEN a ELSE b

RECURSIVE BitLen(_)
BitLen(n) == IF n = 0 THEN 0 ELSE 1 + BitLen(n \div 2)

Zero == [m |-> 0, e |-> MinExponent]

\* M * 2^E rounded to a significand of p bits with exponents >= emin:
\* round to nearest, ties to even; below emin the significand loses bits
\* (subnormal numbers) and finally becomes 0 (underflow).  |M| < 2^30.
RoundTo(M, E, p, emin) ==
    LET a     == Abs(M)
        sign  == IF M < 0 THEN 0 - 1 ELSE 1
        shift == Max(BitLen(a) - p, emin - E)
    IN  IF M = 0 THEN [m |-> 0, e |-> emin]
        ELSE IF shift <= 0 THEN [m |-> M * 2^(0 - shift), e |-> E + shift]
        ELSE IF shift > 30 THEN [m |-> 0, e |-> emin]
        ELSE LET q    == a \div 2^shift
                 r    == a % 2^shift
                 half == 2^(shift - 1)
                 up   == r > half \/ (r = half /\ q % 2 = 1)
                 q1   == IF up THEN q + 1 ELSE q
             IN  IF q1 = 0 THEN [m |-> 0, e |-> emin]
                 ELSE IF q1 = 2^p THEN [m |-> sign * 2^(p - 1), e |-> E + shift + 1]
                 ELSE [m |-> sign * q1, e |-> E + shift]

Round(M, E) == RoundTo(M, E, MantissaBits, MinExponent)

FMul(a, b) == Round(a.m * b.m, a.e + b.e)

FNeg(a) == IF a.m = 0 THEN a ELSE [m |-> 0 - a.m, e |-> a.e]

\* a + b; an operand more than MantissaBits + 2 binary places below the
\* other is less than an eighth of a unit in its last place and is absorbed
FAdd(a, b) ==
    LET lo == Min(a.e, b.e)
    IN  IF a.m = 0 THEN b
        ELSE IF b.m = 0 THEN a
        ELSE IF a.e - b.e > MantissaBits + 2 THEN a
        ELSE IF b.e - a.e > MantissaBits + 2 THEN b
        ELSE Round(a.m * 2^(a.e - lo) + b.m * 2^(b.e - lo), lo)

FSub(a, b) == FAdd(a, FNeg(b))

FLess(a, b) == FSub(a, b).m < 0

FLeq(a, b) == FSub(a, b).m <= 0

\* a float is normal when its significand has all its bits
IsNormal(a) == Abs(a.m) >= 2^(MantissaBits - 1)

\* the first b binary places of r/d, for 0 <= r < d < 2^30
RECURSIVE FractionBits(_, _, _)
FractionBits(r, d, b) ==
    IF b = 0 THEN 0
    ELSE ((2 * r) \div d) * 2^(b - 1) + FractionBits((2 * r) % d, d, b - 1)

\* the remainder that FractionBits(r, d, b) leaves
RECURSIVE FractionRest(_, _, _)
FractionRest(r, d, b) ==
    IF b = 0 THEN r ELSE FractionRest((2 * r) % d, d, b - 1)

\* the float nearest to n/d, for 0 <= n < 2^30 and 0 < d < 2^30: the
\* quotient is taken to MantissaBits + 1 significant bits or more, with a
\* sticky bit for what is left, and rounded
FromRatio(n, d) ==
    LET b == Max(0, MantissaBits + 2 + BitLen(d) - BitLen(n))
        q == (n \div d) * 2^b + FractionBits(n % d, d, b)
        s == IF FractionRest(n % d, d, b) = 0 THEN 0 ELSE 1
    IN  IF n = 0 THEN Zero ELSE Round(2 * q + s, 0 - (b + 1))

\* the float of a decimal literal n/d
Lit(n, d) == FromRatio(n, d)

\* float(n) of a small integer
FromInt(n) == Round(n, 0)

\* x ** n for an integer n >= 0 (C's pow): the power is evaluated with
\* four more bits than the format has and without underflow, and is
\* rounded to the format once, as libm does
RECURSIVE PowWide(_, _)
PowWide(x, n) ==
    LET p    == MantissaBits + 4
        wide == 0 - 1000000
    IN  IF n = 0 THEN [m |-> 2^(p - 1), e |-> 0 - (p - 1)]
        ELSE LET h  == PowWide(x, n \div 2)
                 sq == RoundTo(h.m * h.m, h.e + h.e, p, wide)
             IN  IF n % 2 = 0 THEN sq
                 ELSE RoundTo(sq.m * x.m, sq.e + x.e, p, wide)

FPow(x, n) == LET w == PowWide(x, n) IN Round(w.m, w.e)

-----------------------------------------------------------------------------
(* Game parameters *)

None == -1

CPD_OPTIONS == {3, 6, 12, 18}

ORIENTATION_OPTIONS == {0, 45, 90}

ORIENTATION_NAMES == [o \in ORIENTATION_OPTIONS |->
    CASE o = 0  -> "Horizontal"
      [] o = 45 -> "Diagonal"
      [] o = 90 -> "Vertical"]

INITIAL_CONTRAST == Lit(5, 10)

MIN_CONTRAST == Lit(0, 10)

CONTRAST_DECAY_RATE == Lit(15, 100)

\* a decay of 8% per correct answer, as the sidebar text has it
calculate_contrast_8_percent(score) ==
    LET x == FMul(INITIAL_CONTRAST, FPow(FSub(FromInt(1), Lit(8, 100)), score))
    IN  IF FLess(MIN_CONTRAST, x) THEN x ELSE MIN_CONTRAST

\* a linear decay that is not clamped
calculate_contrast_linear(score) ==
    FSub(INITIAL_CONTRAST, FMul(CONTRAST_DECAY_RATE, FromInt(score)))

\* a growth of 15% per correct answer (the sign of the rate flipped)
calculate_contrast_growing(score) ==
    LET x == FMul(INITIAL_CONTRAST, FPow(FAdd(FromInt(1), CONTRAST_DECAY_RATE), score))
    IN  IF FLess(MIN_CONTRAST, x) THEN x ELSE MIN_CONTRAST

\* max(MIN_CONTRAST, INITIAL_CONTRAST * ((1 - CONTRAST_DECAY_RATE) ** score))
calculate_contrast(score) ==
    LET x == FMul(INITIAL_CONTRAST, FPow(FSub(FromInt(1), CONTRAST_DECAY_RATE), score))
    IN  IF FLess(MIN_CONTRAST, x) THEN x ELSE MIN_CONTRAST

-----------------------------------------------------------------------------
(* generate_gabor.  numpy's sin, cos and exp are evaluated in integer      *)
(* arithmetic: cos and sin of a multiple of 45 degrees from a table, sin of *)
(* a phase by Bhaskara's rational approximation (exact at 0, 1/4, 1/2 and   *)
(* 3/4 of a cycle, never above 1), exp by a power of 2 times a quadratic    *)
(* (never above 1, never 0).  Their results are rounded to floats.          *)

size_pixels == 512

size_degrees == 8

\* np.linspace(-size_degrees/2, size_degrees/2, size_pixels)[i], in units
\* of 1/(size_pixels - 1) degree
GridUnit == size_pixels - 1

Linspace(i) == size_degrees * i - (size_degrees * GridUnit) \div 2

\* cos and sin are in units of 1/TrigOne
TrigOne == 2^14

\* np.cos(np.deg2rad(deg)) for deg a multiple of 45; 11585 is TrigOne/sqrt(2)
CosDeg(deg) ==
    CASE deg % 360 = 0   -> TrigOne
      [] deg % 360 = 45  -> 11585
      [] deg % 360 = 90  -> 0
      [] deg % 360 = 135 -> 0 - 11585
      [] deg % 360 = 180 -> 0 - TrigOne
      [] deg % 360 = 225 -> 0 - 11585
      [] deg % 360 = 270 -> 0
      [] deg % 360 = 315 -> 11585

SinDeg(deg) == CosDeg(deg + 270)

\* a cycle of the grating is divided into PhaseSteps steps
PhaseSteps == 2^13

\* sin(2 pi v) for v = k/PhaseSteps in [0, 1/2]: 32 w / (5 - 8 w), w = v (1 - 2 v)
HalfWave(k) ==
    LET w == k * (PhaseSteps - 2 * k)
    IN  FromRatio(4 * w, (5 * PhaseSteps * PhaseSteps) \div 8 - w)

\* np.sin of a phase of u / (GridUnit * TrigOne) cycles
SinCycles(u) ==
    LET cycle == GridUnit * TrigOne
        k     == (u % cycle) \div (cycle \div PhaseSteps)
    IN  IF k < PhaseSteps \div 2 THEN HalfWave(k)
        ELSE FNeg(HalfWave(k - PhaseSteps \div 2))

\* np.exp(-z) for z = z1024/1024 >= 0: with y = z * log2(e) = n + f/1024,
\* 2^-n * (1 - 0.6565 f + 0.1565 f^2); 23637/16384 is log2(e)
ExpNeg(z1024) ==
    LET y    == (z1024 * 23637) \div 16384
        n    == y \div 1024
        f    == y % 1024
        quad == 1024 - (672 * f) \div 1024 + (160 * ((f * f) \div 1024)) \div 1024
    IN  FromRatio(quad, 1024 * 2^n)

\* generate_gabor without the gray background of line 65
generate_gabor_no_background(cpd, orientation_deg, contrast) ==
    [row \in 0..(size_pixels - 1), col \in 0..(size_pixels - 1) |->
        LET X == Linspace(col)
            Y == Linspace(row)
            theta == orientation_deg + 90
            sine_grating == SinCycles(cpd * (X * CosDeg(theta) + Y * SinDeg(theta)))
            gaussian == ExpNeg(((X * X + Y * Y) * 100) \div ((GridUnit * GridUnit * 288) \div 1024))
        IN  FMul(FMul(contrast, sine_grating), gaussian)]

\* generate_gabor(cpd, orientation_deg, contrast)[row, col], lines 42-67:
\* X and Y are in units of 1/GridUnit degree, sigma_degrees is 1.2 and
\* 2 * sigma_degrees^2 is 288/100
generate_gabor(cpd, orientation_deg, contrast) ==
    [row \in 0..(size_pixels - 1), col \in 0..(size_pixels - 1) |->
        LET X == Linspace(col)
            Y == Linspace(row)
            theta == orientation_deg + 90
            sine_grating == SinCycles(cpd * (X * CosDeg(theta) + Y * SinDeg(theta)))
            gaussian == ExpNeg(((X * X + Y * Y) * 100) \div ((GridUnit * GridUnit * 288) \div 1024))
        IN  FAdd(Lit(5, 10), FMul(FMul(contrast, sine_grating), gaussian))]

-----------------------------------------------------------------------------
(* st.session_state and the functions that change it *)

\* feedback is a text: the sequence of its parts, <<>> for ""
NoFeedback == <<>>

\* lines 14-26: the session state of a new session
NewSession ==
    [score               |-> 0,
     current_orientation |-> None,
     current_cpd         |-> None,
     feedback            |-> NoFeedback,
     feedback_color      |-> "blue",
     show_feedback       |-> FALSE]

\* np.random.choice(CPD_OPTIONS), np.random.choice(ORIENTATION_OPTIONS)
Draws == [cpd : CPD_OPTIONS, orientation : ORIENTATION_OPTIONS]

\* generate_new_patch without line 74: show_feedback stays as it is
generate_new_patch_keeps_flag(ss, d) ==
    [ss EXCEPT !.current_cpd         = d.cpd,
               !.current_orientation = d.orientation,
               !.feedback            = NoFeedback]

generate_new_patch(ss, d) ==
    [ss EXCEPT !.current_cpd         = d.cpd,
               !.current_orientation = d.orientation,
               !.feedback            = NoFeedback,
               !.show_feedback       = FALSE]

\* check_answer without line 91: show_feedback is not set
check_answer_no_flag(ss, guessed_orientation) ==
    IF ss.show_feedback THEN ss
    ELSE IF guessed_orientation = ss.current_orientation
    THEN [ss EXCEPT !.score = ss.score + 1,
                    !.feedback = <<"Correct!">>,
                    !.feedback_color = "green"]
    ELSE [ss EXCEPT !.feedback = <<"Wrong! It was", ORIENTATION_NAMES[ss.current_orientation]>>,
                    !.feedback_color = "red"]

\* check_answer that counts every answer as correct
check_answer_always_correct(ss, guessed_orientation) ==
    IF ss.show_feedback THEN ss
    ELSE [ss EXCEPT !.score = ss.score + 1,
                    !.feedback = <<"Correct!">>,
                    !.feedback_color = "green",
                    !.show_feedback = TRUE]

check_answer(ss, guessed_orientation) ==
    IF ss.show_feedback THEN ss
    ELSE IF guessed_orientation = ss.current_orientation
    THEN [ss EXCEPT !.score = ss.score + 1,
                    !.feedback = <<"Correct!">>,
                    !.feedback_color = "green",
                    !.show_feedback = TRUE]
    ELSE [ss EXCEPT !.feedback = <<"Wrong! It was", ORIENTATION_NAMES[ss.current_orientation]>>,
                    !.feedback_color = "red",
                    !.show_feedback = TRUE]

\* reset_game that keeps the score
reset_game_keeps_score(ss, d) ==
    generate_new_patch([ss EXCEPT !.feedback = NoFeedback], d)

reset_game(ss, d) ==
    generate_new_patch([ss EXCEPT !.score = 0, !.feedback = NoFeedback], d)

\* the draws lines 99-101 can make: none once a trial exists
FirstDraws(ss) ==
    IF ss.current_orientation = None THEN Draws ELSE {CHOOSE d \in Draws : TRUE}

\* lines 99-101 left out: no trial is drawn on the first run
InitialDrawSkipped(ss, d) == ss

\* lines 99-101: the first run of a session draws the first trial
InitialDraw(ss, d) ==
    IF ss.current_orientation = None THEN generate_new_patch(ss, d) ELSE ss

\* the difficulty ladder with >= in place of >
DifficultyLevelInclusive(contrast) ==
    IF FLeq(Lit(5, 10), contrast) THEN "Easy"
    ELSE IF FLeq(Lit(2, 10), contrast) THEN "Medium"
    ELSE IF FLeq(Lit(5, 100), contrast) THEN "Hard"
    ELSE IF FLeq(Lit(1, 100), contrast) THEN "Very Hard"
    ELSE "Extreme!"

\* lines 201-211
DifficultyLevel(contrast) ==
    IF FLess(Lit(5, 10), contrast) THEN "Easy"
    ELSE IF FLess(Lit(2, 10), contrast) THEN "Medium"
    ELSE IF FLess(Lit(5, 100), contrast) THEN "Hard"
    ELSE IF FLess(Lit(1, 100), contrast) THEN "Very Hard"
    ELSE "Extreme!"

-----------------------------------------------------------------------------
(* The script: one action is one execution, from line 14 to its end or to *)
(* the st.rerun() that cuts it short                                      *)

NoPatch == [rendered |-> FALSE, cpd |-> None, orientation |-> None, contrast |-> Zero]

NoCall == [fn |-> "none"]

\* what a button click can be: an answer button's orientation
Guesses == {0, 90, 45}

Init ==
    /\ session_state = NewSession
    /\ current_contrast = Zero
    /\ gabor = NoPatch
    /\ difficulty = ""
    /\ rerun = FALSE
    /\ event = [run |-> "none", guess |-> None, draws |-> 0]
    /\ scored = 0
    /\ call = NoCall

\* lines 144-149: the arguments generate_gabor is called with
Render(ss, contrast) ==
    [rendered    |-> TRUE,
     cpd         |-> ss.current_cpd,
     orientation |-> ss.current_orientation,
     contrast    |-> contrast]

\* lines 140-142: old feedback is cleared
ClearOldFeedback(ss) ==
    IF ss.feedback # NoFeedback THEN [ss EXCEPT !.feedback = NoFeedback] ELSE ss

\* No button is clicked and no feedback is pending: the script runs to its
\* end (lines 99-213).  This is the first run of a session and the run that
\* follows a st.rerun().
IdleRun ==
    /\ rerun \/ ~gabor.rendered
    /\ \E d \in FirstDraws(session_state) :
        LET s1 == InitialDraw(session_state, d)
            cc == calculate_contrast(s1.score)
        IN  /\ ~s1.show_feedback
            /\ session_state' = ClearOldFeedback(s1)
            /\ current_contrast' = cc
            /\ gabor' = Render(s1, cc)
            /\ difficulty' = DifficultyLevel(cc)
            /\ rerun' = FALSE
            /\ event' = [run |-> "idle", guess |-> None,
                         draws |-> IF s1 = session_state THEN 0 ELSE 1]
            /\ scored' = IF s1 = session_state THEN scored ELSE 0
    /\ UNCHANGED call

\* An answer button is clicked while no feedback is pending: the patch is
\* rendered, then check_answer and st.rerun() (lines 99-177).
AnswerRun(guess) ==
    /\ gabor.rendered
    /\ session_state.score < MaxScore
    /\ \E d \in FirstDraws(session_state) :
        LET s1 == InitialDraw(session_state, d)
            cc == calculate_contrast(s1.score)
            s2 == ClearOldFeedback(s1)
            s3 == check_answer(s2, guess)
        IN  /\ ~s1.show_feedback
            /\ session_state' = s3
            /\ current_contrast' = cc
            /\ gabor' = Render(s2, cc)
            /\ rerun' = TRUE
            /\ event' = [run |-> "answer", guess |-> guess,
                         draws |-> IF s1 = session_state THEN 0 ELSE 1]
            /\ scored' = (IF s1 = session_state THEN scored ELSE 0) + (s3.score - s2.score)
    /\ UNCHANGED <<difficulty, call>>

\* Feedback is pending (lines 130-139): a new trial is drawn and the script
\* reruns before it reaches the patch and the answer buttons.  The run is the
\* rerun that check_answer's st.rerun() asked for (click = None) or one that
\* an answer click started in the meantime; that click is never looked at.
FeedbackRun(click) ==
    /\ IF click = None THEN rerun ELSE gabor.rendered
    /\ \E d0 \in FirstDraws(session_state), d \in Draws :
        LET s1 == InitialDraw(session_state, d0)
            cc == calculate_contrast(s1.score)
        IN  /\ s1.show_feedback
            /\ session_state' = generate_new_patch(s1, d)
            /\ current_contrast' = cc
            /\ rerun' = TRUE
            /\ event' = [run |-> "feedback", guess |-> click,
                         draws |-> IF s1 = session_state THEN 1 ELSE 2]
            /\ scored' = 0
    /\ UNCHANGED <<gabor, difficulty, call>>

\* The Reset Game button is clicked (lines 125-128): reset_game and
\* st.rerun(), whatever the state.
ResetRun ==
    /\ gabor.rendered
    /\ \E d0 \in FirstDraws(session_state), d \in Draws :
        LET s1 == InitialDraw(session_state, d0)
            cc == calculate_contrast(s1.score)
        IN  /\ session_state' = reset_game(s1, d)
            /\ current_contrast' = cc
            /\ rerun' = TRUE
            /\ event' = [run |-> "reset", guess |-> None,
                         draws |-> IF s1 = session_state THEN 1 ELSE 2]
            /\ scored' = 0
    /\ UNCHANGED <<gabor, difficulty, call>>

Next ==
    \/ IdleRun
    \/ \E guess \in Guesses : AnswerRun(guess)
    \/ \E click \in Guesses \cup {None} : FeedbackRun(click)
    \/ ResetRun

Spec == Init /\ [][Next]_vars

-----------------------------------------------------------------------------
(* calculate_contrast called directly, for any score *)

gameVars == <<session_state, current_contrast, gabor, difficulty, rerun, event, scored>>

InitContrast ==
    /\ session_state = NewSession
    /\ current_contrast = Zero
    /\ gabor = NoPatch
    /\ difficulty = ""
    /\ rerun = FALSE
    /\ event = [run |-> "none", guess |-> None, draws |-> 0]
    /\ scored = 0
    /\ call \in {[fn |-> "calculate_contrast", score |-> s, done |-> FALSE,
                  result |-> Zero, next_result |-> Zero] : s \in 0..MaxContrastScore}

\* calculate_contrast(score) and calculate_contrast(score + 1)
CallContrast ==
    /\ ~call.done
    /\ call' = [call EXCEPT !.done = TRUE,
                            !.result = calculate_contrast(call.score),
                            !.next_result = calculate_contrast(call.score + 1)]
    /\ UNCHANGED gameVars

NextContrast == CallContrast

SpecContrast == InitContrast /\ [][NextContrast]_vars

-----------------------------------------------------------------------------
(* generate_gabor called directly, for any trial and any contrast in [0,1] *)

ContrastSamples ==
    {FromRatio(k, ContrastSteps) : k \in 0..ContrastSteps}
        \cup {calculate_contrast(s) : s \in 0..MaxScore}

SampledPixels == {i \in 0..(size_pixels - 1) : i % PixelStride = 0}

InitGabor ==
    /\ session_state = NewSession
    /\ current_contrast = Zero
    /\ gabor = NoPatch
    /\ difficulty = ""
    /\ rerun = FALSE
    /\ event = [run |-> "none", guess |-> None, draws |-> 0]
    /\ scored = 0
    /\ call \in [fn : {"generate_gabor"}, cpd : CPD_OPTIONS,
                 orientation : ORIENTATION_OPTIONS, contrast : ContrastSamples,
                 row : SampledPixels, col : SampledPixels,
                 done : {FALSE}, sample : {Zero}]

\* generate_gabor(cpd, orientation, contrast)[row, col]
CallGabor ==
    /\ ~call.done
    /\ call' = [call EXCEPT
                  !.done = TRUE,
                  !.sample = generate_gabor(call.cpd, call.orientation,
                                            call.contrast)[call.row, call.col]]
    /\ UNCHANGED gameVars

NextGabor == CallGabor

SpecGabor == InitGabor /\ [][NextGabor]_vars

-----------------------------------------------------------------------------
(* Claims *)

\* the float 0.5
Half == [m |-> 2^(MantissaBits - 1), e |-> 0 - MantissaBits]

\* C1: in every reachable state of the game the contrast computed by
\* calculate_contrast from the current score is >= 0, and so is the
\* current_contrast the script last computed; it stays >= 0 when the score
\* is thousands higher, where the power underflows
C1_ContrastNeverNegative ==
    /\ FLeq(Zero, calculate_contrast(session_state.score))
    /\ FLeq(Zero, current_contrast)
    /\ \A k \in 1..MaxScore : FLeq(Zero, calculate_contrast(session_state.score + 1000 * k))

\* C1 witness: the script has computed a contrast after correct answers
C1_Witness ==
    /\ session_state.score >= 4
    /\ event.run = "idle"
    /\ current_contrast = calculate_contrast(session_state.score)

Near(x, n, d) == Abs(x.m * d - n * 2^(0 - x.e)) * 256 <= n * 2^(0 - x.e)

C4_AnswerDecidedByEquality ==
    [][event'.run = "answer" =>
        /\ ~session_state.show_feedback
        /\ session_state'.score =
               IF event'.guess = session_state.current_orientation
               THEN session_state.score + 1 ELSE session_state.score
        /\ session_state'.current_orientation = session_state.current_orientation
        /\ session_state'.current_cpd = session_state.current_cpd
        /\ session_state'.show_feedback]_vars

\* C4 witness: a correct answer has just been scored
C4_Witness ==
    /\ event.run = "answer"
    /\ event.guess = session_state.current_orientation
    /\ session_state.score >= 1
    /\ session_state.show_feedback

\* C5 as claimed: from a state with show_feedback true the script runs again
\* by itself, and the very next run draws a trial, ends with show_feedback
\* false and feedback empty and leaves the score as it is
C5_FeedbackIsTransient ==
    /\ [](session_state.show_feedback => rerun)
    /\ [][session_state.show_feedback =>
            /\ event'.draws >= 1
            /\ ~session_state'.show_feedback
            /\ session_state'.feedback = NoFeedback
            /\ session_state'.score = session_state.score]_vars

\* C5 amended: as C5, but the score is left as it is unless the next run is
\* started by a click on Reset Game, which sets it to 0
C5_FeedbackIsTransientUnlessReset ==
    /\ [](session_state.show_feedback => rerun)
    /\ [][session_state.show_feedback =>
            /\ event'.draws >= 1
            /\ ~session_state'.show_feedback
            /\ session_state'.feedback = NoFeedback
            /\ \/ session_state'.score = session_state.score
               \/ event'.run = "reset" /\ session_state'.score = 0]_vars

\* C5 witness: the run after a correct answer has drawn the next trial
C5_Witness ==
    /\ event.run = "feedback"
    /\ event.guess = None
    /\ session_state.score >= 1
    /\ ~session_state.show_feedback
    /\ session_state.feedback = NoFeedback

\* C6: a reset sets the score to 0 and draws a trial, with show_feedback
\* false and feedback empty; the patch rendered next has the initial contrast
C6_ResetRestartsTheGame ==
    /\ [][event'.run = "reset" =>
            /\ session_state'.score = 0
            /\ event'.draws >= 1
            /\ session_state'.current_cpd \in CPD_OPTIONS
            /\ session_state'.current_orientation \in ORIENTATION_OPTIONS
            /\ ~session_state'.show_feedback
            /\ session_state'.feedback = NoFeedback]_vars
    /\ [][(event.run = "reset" /\ event'.run \in {"idle", "answer"}) =>
            gabor'.contrast = Half]_vars

\* C6 witness: a reset has just zeroed a score that was not 0 (the contrast
\* the run computed before the reset was below the initial one)
C6_Witness ==
    /\ event.run = "reset"
    /\ session_state.score = 0
    /\ FLess(current_contrast, Half)

\* C7: between two draws of a trial the score rises at most once, and
\* check_answer changes nothing while show_feedback is true
C7_TrialScoredAtMostOnce ==
    /\ scored <= 1
    /\ session_state.show_feedback =>
           \A guess \in Guesses : check_answer(session_state, guess) = session_state

\* C7 witness: an answer click arrived while show_feedback was true
C7_Witness ==
    /\ event.run = "feedback"
    /\ event.guess \in Guesses
    /\ scored = 0

C10_NeverEasy ==
    /\ session_state.score \in Nat
    /\ FLeq(calculate_contrast(session_state.score), INITIAL_CONTRAST)
    /\ FLeq(current_contrast, INITIAL_CONTRAST)
    /\ difficulty # "Easy"
    /\ (event.run = "idle" /\ session_state.score = 0) => difficulty = "Medium"

\* C10 witness: the sidebar of a game at score 0 has been written
C10_Witness ==
    /\ event.run = "idle"
    /\ session_state.score = 0
    /\ difficulty = "Medium"

\* C8 as claimed: every sample of generate_gabor is within [0,1] for every
\* contrast in [0,1]
C8_SamplesInUnitRange ==
    (call.done /\ FLeq(Zero, call.contrast) /\ FLeq(call.contrast, FromInt(1))) =>
        /\ FLeq(Zero, call.sample)
        /\ FLeq(call.sample, FromInt(1))

\* C8 amended: every sample of generate_gabor is within [0,1] for every
\* contrast in [0, 0.5], which covers every contrast calculate_contrast
\* returns
C8_SamplesInUnitRangeUpToHalf ==
    /\ \A s \in 0..MaxScore : FLeq(calculate_contrast(s), Half)
    /\ (call.done /\ FLeq(Zero, call.contrast) /\ FLeq(call.contrast, Half)) =>
           /\ FLeq(Zero, call.sample)
           /\ FLeq(call.sample, FromInt(1))

\* C8 witness: a sample of a patch at the initial contrast that is well
\* away from the gray background
C8_Witness ==
    /\ call.done
    /\ call.contrast = calculate_contrast(0)
    /\ FLess(Lit(8, 10), call.sample)

====
